---- MODULE Spec2Model ----
(***************************************************************************)
(* Model of the COUNTER usage harvester worker (src/worker.js): the        *)
(* per-account harvest loop (processAccounts / processWithProgress), the   *)
(* row normalizer (processApiResponse, createErrorEntry), the month range  *)
(* deriver (getMonthColumns) and the renderers (formatAsPivot,             *)
(* convertToCSV).                                                          *)
(*                                                                         *)
(* JavaScript values are modelled as follows.  An object is a function     *)
(* from its property names (strings) to values; a property that is absent  *)
(* is absent from the DOMAIN.  An array is a sequence.  An object that the *)
(* code enumerates with Object.entries/Object.keys is a sequence of        *)
(* <<key, value>> pairs in enumeration order.  Counts are naturals.  A     *)
(* calendar date is [y, m, d]; the Worker runtime's local time zone is     *)
(* UTC, so getFullYear/getMonth of new Date("YYYY-MM-DD") are y and m - 1. *)
(***************************************************************************)
EXTENDS Integers, Sequences, FiniteSets, TLC

VARIABLES
  requestData,   \* the JSON body of the POST request
  endpoint,      \* "batch" (/harvest-batch) or "stream" (/harvest-stream)
  pc,            \* position of the handler: progress, fetch, finish, close, done
  i,             \* the loop index: accounts processed so far
  results,       \* the row accumulator
  successful,    \* counter of successful accounts
  failed,        \* counter of failed accounts
  events,        \* the objects written to the stream writer, in order
  writerClosed,  \* number of writer.close() calls
  fetched,       \* what fetch() gave for each processed account, in order
  result,        \* the final result object (the response body or complete event)
  call           \* a direct call of one function: its name, arguments, return value

vars == <<requestData, endpoint, pc, i, results, successful, failed,
          events, writerClosed, fetched, result,
         call>>

(***************************************************************************)
(* Bounds of the model.                                                    *)
(***************************************************************************)
MaxAccounts == 2

(***************************************************************************)
(* Generic helpers.                                                        *)
(***************************************************************************)
Range(s) == {s[k] : k \in DOMAIN s}

Has(obj, key) == key \in DOMAIN obj

\* obj[key] || dflt for string-valued properties: absent and "" are falsy.
GetOr(obj, key, dflt) ==
  IF Has(obj, key) /\ obj[key] # "" THEN obj[key] ELSE dflt

\* an object with no properties
EmptyObj == [x \in {} |-> 0]

RECURSIVE SumSeq(_)
\* the sum of a sequence of numbers (reduce with +)
SumSeq(s) == IF s = <<>> THEN 0 ELSE Head(s) + SumSeq(Tail(s))

RECURSIVE SelectIdx(_, _, _)
\* The indexes k of s, ascending, for which Test(s[k]) holds.
SelectIdx(s, Test(_), k) ==
  IF k > Len(s) THEN <<>>
  ELSE (IF Test(s[k]) THEN <<k>> ELSE <<>>) \o SelectIdx(s, Test, k + 1)

\* Array.prototype.filter
Filter(s, Test(_)) ==
  LET idx == SelectIdx(s, Test, 1) IN [k \in 1..Len(idx) |-> s[idx[k]]]

\* String.prototype.toLowerCase on the report types of the model.
LowerCaseTable ==
  [tr_j1 |-> "tr_j1", tr_j3 |-> "tr_j3", tr_j4 |-> "tr_j4",
   TR_J3 |-> "tr_j3", TR_J4 |-> "tr_j4"]

toLowerCase(s) == LowerCaseTable[s]

(***************************************************************************)
(* Month Range Deriver: formatMonthKey and getMonthColumns.                *)
(***************************************************************************)
months ==
  <<"Jan", "Feb", "Mar", "Apr", "May", "Jun",
    "Jul", "Aug", "Sep", "Oct", "Nov", "Dec">>

Digits == <<"0", "1", "2", "3", "4", "5", "6", "7", "8", "9">>

\* year.toString().slice(-2) for a four-digit year
ShortYear(y) == Digits[((y % 100) \div 10) + 1] \o Digits[(y % 10) + 1]

\* date is [y, m, d] with m in 1..12 (getMonth() is m - 1)
formatMonthKey(date) == months[date.m] \o "-" \o ShortYear(date.y)

\* current <= end on the Date time values (both at midnight UTC)
DateLE(a, b) ==
  \/ a.y < b.y
  \/ a.y = b.y /\ a.m < b.m
  \/ a.y = b.y /\ a.m = b.m /\ a.d <= b.d

\* current.setMonth(current.getMonth() + 1) on the first day of a month
AddMonth(date) ==
  IF date.m = 12 THEN [y |-> date.y + 1, m |-> 1, d |-> date.d]
  ELSE [y |-> date.y, m |-> date.m + 1, d |-> date.d]

RECURSIVE MonthLoop(_, _)
MonthLoop(current, end) ==
  IF DateLE(current, end)
  THEN <<formatMonthKey(current)>> \o MonthLoop(AddMonth(current), end)
  ELSE <<>>

\* variant: the loop starts at the begin date itself, not at the first of its month
getMonthColumns_FromBeginDay(beginDate, endDate) == MonthLoop(beginDate, endDate)

getMonthColumns(beginDate, endDate) ==
  MonthLoop([y |-> beginDate.y, m |-> beginDate.m, d |-> 1], endDate)

\* variant: months[parseInt(monthNum)], without the - 1
convertApiMonthToDisplayMonth_ZeroBased(apiMonth) ==
  (IF apiMonth.m = 12 THEN "undefined" ELSE months[apiMonth.m + 1])
    \o "-" \o ShortYear(apiMonth.y)

\* convertApiMonthToDisplayMonth: apiMonth "YYYY-MM" is [y, m] after split('-')
convertApiMonthToDisplayMonth(apiMonth) ==
  months[apiMonth.m] \o "-" \o ShortYear(apiMonth.y)

\* variant: the month fields are the months the payload populated
MonthFields_PayloadMonths(monthColumns, monthlyValues) ==
  [mo \in DOMAIN monthlyValues |-> monthlyValues[mo]]

\* monthColumns.forEach(month => entry[month] = monthlyValues[month] || 0)
MonthFields(monthColumns, monthlyValues) ==
  [mo \in Range(monthColumns) |->
     IF mo \in DOMAIN monthlyValues THEN monthlyValues[mo] ELSE 0]

(***************************************************************************)
(* The report-type-conditional columns of a row.                           *)
(***************************************************************************)
\* variant: the report type is compared as typed, without toLowerCase
IsTRJ3_CaseSensitive(rd) == rd.report_type = "tr_j3"

IsTRJ3(rd) == toLowerCase(rd.report_type) = "tr_j3"

IsTRJ4(rd) == toLowerCase(rd.report_type) = "tr_j4"

AccessTypeField(rd, accessType) ==
  IF IsTRJ3(rd) THEN [Access_Type |-> accessType] ELSE EmptyObj

YOPField(rd, yop) ==
  IF IsTRJ4(rd) THEN [YOP |-> yop] ELSE EmptyObj

\* variant: the error row does not carry the account's customer_id
createErrorEntry_NoAccountId(message, rd, account) ==
  MonthFields(getMonthColumns(rd.begin_date, rd.end_date), EmptyObj)
    @@ YOPField(rd, "") @@ AccessTypeField(rd, "")
    @@ [Institution_Name |-> "ERROR", Institution_ID |-> "",
        Title |-> "Failed: " \o message,
        Publisher |-> "", Publisher_ID |-> "", Platform |-> "",
        DOI |-> "", Proprietary_ID |-> "", Print_ISSN |-> "",
        Online_ISSN |-> "", URI |-> "",
        Metric_Type |-> "ERROR", Reporting_Period_Total |-> 0]

(***************************************************************************)
(* createErrorEntry                                                        *)
(***************************************************************************)
createErrorEntry(message, rd, account) ==
  LET monthColumns == getMonthColumns(rd.begin_date, rd.end_date)
      errorEntry ==
        [Institution_Name |-> "ERROR",
         Institution_ID |-> account.customer_id,
         Title |-> "Failed: " \o message,
         Publisher |-> "", Publisher_ID |-> "", Platform |-> "",
         DOI |-> "", Proprietary_ID |-> "", Print_ISSN |-> "",
         Online_ISSN |-> "", URI |-> "",
         Metric_Type |-> "ERROR",
         Reporting_Period_Total |-> 0]
  IN MonthFields(monthColumns, EmptyObj) @@ YOPField(rd, "")
       @@ AccessTypeField(rd, "") @@ errorEntry

(***************************************************************************)
(* Item Field Extractor: getInstitutionId and extractItemData.             *)
(* An identifier container is [isArray |-> TRUE, list |-> <<...>>] for an  *)
(* array of [Type, Value] entries, or [isArray |-> FALSE, obj |-> ...] for *)
(* an object with named properties.  The Proprietary property of an        *)
(* object-form container is itself [isArray |-> TRUE, list |-> ...] or     *)
(* [isArray |-> FALSE, str |-> s].                                         *)
(***************************************************************************)
\* s[0] for the strings of the model: the first UTF-16 code unit
FirstCharTable == [I9 |-> "I", P9 |-> "P"]

\* Array.prototype.find(x => x.Type === type), then ?.Value || ''
FindValue(list, type) ==
  LET idx == SelectIdx(list, LAMBDA e : e.Type = type, 1)
  IN IF idx = <<>> THEN "" ELSE GetOr(list[idx[1]], "Value", "")

\* ids.Proprietary?.[0] || ids.Proprietary || ''
ProprietaryOf(obj) ==
  IF ~Has(obj, "Proprietary") THEN ""
  ELSE LET p == obj.Proprietary
       IN IF p.isArray
          THEN p.list[1]
          ELSE IF p.str = "" THEN "" ELSE FirstCharTable[p.str]

getInstitutionId(jsonData) ==
  IF ~Has(jsonData, "Report_Header") THEN ""
  ELSE IF ~Has(jsonData.Report_Header, "Institution_ID") THEN ""
  ELSE LET institutionIds == jsonData.Report_Header.Institution_ID
       IN IF institutionIds.isArray
          THEN FindValue(institutionIds.list, "Proprietary")
          ELSE ProprietaryOf(institutionIds.obj)

RECURSIVE ScanItemIds(_, _)
\* the for/switch over an array-form Item_ID: each matching entry assigns
ScanItemIds(list, acc) ==
  IF list = <<>> THEN acc
  ELSE LET id == Head(list)
           v == GetOr(id, "Value", "")
           next ==
             CASE id.Type = "DOI" -> [acc EXCEPT !.doi = v]
               [] id.Type = "Proprietary" -> [acc EXCEPT !.proprietary_id = v]
               [] id.Type = "Print_ISSN" -> [acc EXCEPT !.print_issn = v]
               [] id.Type = "Online_ISSN" -> [acc EXCEPT !.online_issn = v]
               [] OTHER -> acc
       IN ScanItemIds(Tail(list), next)

extractItemData(item) ==
  LET noIds == [doi |-> "", proprietary_id |-> "", print_issn |-> "",
                online_issn |-> ""]
      ids ==
        IF ~Has(item, "Item_ID") THEN noIds
        ELSE IF item.Item_ID.isArray
             THEN ScanItemIds(item.Item_ID.list, noIds)
             ELSE [doi |-> GetOr(item.Item_ID.obj, "DOI", ""),
                   proprietary_id |-> GetOr(item.Item_ID.obj, "Proprietary", ""),
                   print_issn |-> GetOr(item.Item_ID.obj, "Print_ISSN", ""),
                   online_issn |-> GetOr(item.Item_ID.obj, "Online_ISSN", "")]
      publisher_id ==
        IF ~Has(item, "Publisher_ID") THEN ""
        ELSE IF item.Publisher_ID.isArray
             THEN FindValue(item.Publisher_ID.list, "Proprietary")
             ELSE ProprietaryOf(item.Publisher_ID.obj)
  IN [title |-> GetOr(item, "Title", ""),
      publisher |-> GetOr(item, "Publisher", ""),
      publisher_id |-> publisher_id,
      platform |-> GetOr(item, "Platform", ""),
      doi |-> ids.doi,
      proprietary_id |-> ids.proprietary_id,
      print_issn |-> ids.print_issn,
      online_issn |-> ids.online_issn,
      uri |-> ""]

(***************************************************************************)
(* Row Normalizer: processApiResponse.                                     *)
(***************************************************************************)
\* the common identity part of an emitted row
EntryBase(institutionName, institutionId, baseData, metricType, total) ==
  [Institution_Name |-> institutionName,
   Institution_ID |-> institutionId,
   Title |-> baseData.title,
   Publisher |-> baseData.publisher,
   Publisher_ID |-> baseData.publisher_id,
   Platform |-> baseData.platform,
   DOI |-> baseData.doi,
   Proprietary_ID |-> baseData.proprietary_id,
   Print_ISSN |-> baseData.print_issn,
   Online_ISSN |-> baseData.online_issn,
   URI |-> baseData.uri,
   Metric_Type |-> metricType,
   Reporting_Period_Total |-> total]

RECURSIVE MonthlyValues51(_)
\* monthlyValues[convertApiMonthToDisplayMonth(month)] = monthValue, in order
MonthlyValues51(monthlyData) ==
  IF monthlyData = <<>> THEN EmptyObj
  ELSE LET n == Len(monthlyData)
           last == monthlyData[n]
       IN (convertApiMonthToDisplayMonth(last[1]) :> last[2])
            @@ MonthlyValues51(SubSeq(monthlyData, 1, n - 1))

\* total += monthValue over Object.entries(monthlyData)
Total51(monthlyData) ==
  SumSeq([k \in 1..Len(monthlyData) |-> monthlyData[k][2]])

\* the rows of one Attribute_Performance entry, one per metric type key
AttrPerfEntries(attrPerf, baseData, institutionName, institutionId, rd, monthColumns) ==
  LET accessType == GetOr(attrPerf, "Access_Type", "")
      yop == GetOr(attrPerf, "YOP", "")
      performance == IF Has(attrPerf, "Performance") THEN attrPerf.Performance ELSE <<>>
  IN [k \in 1..Len(performance) |->
        MonthFields(monthColumns, MonthlyValues51(performance[k][2]))
          @@ YOPField(rd, yop) @@ AccessTypeField(rd, accessType)
          @@ EntryBase(institutionName, institutionId, baseData,
                       performance[k][1], Total51(performance[k][2]))]

RECURSIVE FlattenSeqs(_)
\* the concatenation of a sequence of sequences (successive push(...))
FlattenSeqs(ss) == IF ss = <<>> THEN <<>> ELSE Head(ss) \o FlattenSeqs(Tail(ss))

\* the rows of one item in the version 5.1 path
Item51Entries(item, institutionName, institutionId, rd, monthColumns) ==
  LET baseData == extractItemData(item)
      aps == IF Has(item, "Attribute_Performance") THEN item.Attribute_Performance ELSE <<>>
  IN FlattenSeqs([k \in 1..Len(aps) |->
       AttrPerfEntries(aps[k], baseData, institutionName, institutionId, rd, monthColumns)])

\* first pass of the version 5 path: the (monthKey, instance) visits in order
PerformanceVisits(item) ==
  LET perfs == IF Has(item, "Performance") THEN item.Performance ELSE <<>>
  IN FlattenSeqs([k \in 1..Len(perfs) |->
       IF ~Has(perfs[k], "Period") THEN <<>>
       ELSE LET monthKey == formatMonthKey(perfs[k].Period.Begin_Date)
                inst == IF Has(perfs[k], "Instance") THEN perfs[k].Instance ELSE <<>>
            IN [j \in 1..Len(inst) |->
                  [monthKey |-> monthKey, metricType |-> inst[j].Metric_Type,
                   count |-> inst[j].Count]]])

RECURSIVE CollectMetricData(_, _)
\* metricData after the visits; a sequence in insertion order of its keys
CollectMetricData(visits, metricData) ==
  IF visits = <<>> THEN metricData
  ELSE LET v == Head(visits)
           idx == SelectIdx(metricData, LAMBDA e : e.metricType = v.metricType, 1)
           next ==
             IF idx = <<>>
             THEN Append(metricData,
                         [metricType |-> v.metricType,
                          monthlyValues |-> (v.monthKey :> v.count),
                          total |-> v.count])
             ELSE [metricData EXCEPT ![idx[1]] =
                     [metricType |-> @.metricType,
                      monthlyValues |-> (v.monthKey :> v.count) @@ @.monthlyValues,
                      total |-> @.total + v.count]]
       IN CollectMetricData(Tail(visits), next)

\* the rows of one item in the version 5 path
Item5Entries(item, institutionName, institutionId, rd, monthColumns) ==
  LET baseData == extractItemData(item)
      accessType == GetOr(item, "Access_Type", "")
      yop == GetOr(item, "YOP", GetOr(item, "Year_of_Publication", ""))
      metricData == CollectMetricData(PerformanceVisits(item), <<>>)
  IN [k \in 1..Len(metricData) |->
        MonthFields(monthColumns, metricData[k].monthlyValues)
          @@ YOPField(rd, yop) @@ AccessTypeField(rd, accessType)
          @@ EntryBase(institutionName, institutionId, baseData,
                       metricData[k].metricType, metricData[k].total)]

\* requestData.format === '5.1' || (reportItems.length > 0 && reportItems[0].Attribute_Performance)
isVersion51(rd, reportItems) ==
  \/ Has(rd, "format") /\ rd.format = "5.1"
  \/ Len(reportItems) > 0 /\ Has(reportItems[1], "Attribute_Performance")

\* variant: the No Data row ignores the institution name of the header
noDataEntry_NoHeader(institutionName, institutionId, rd, monthColumns) ==
  MonthFields(monthColumns, EmptyObj) @@ YOPField(rd, "") @@ AccessTypeField(rd, "")
    @@ [Institution_Name |-> "No Data",
        Institution_ID |-> institutionId,
        Title |-> "No usage data for this period",
        Publisher |-> "", Publisher_ID |-> "", Platform |-> "",
        DOI |-> "", Proprietary_ID |-> "", Print_ISSN |-> "",
        Online_ISSN |-> "", URI |-> "",
        Metric_Type |-> "No Data",
        Reporting_Period_Total |-> 0]

noDataEntry(institutionName, institutionId, rd, monthColumns) ==
  MonthFields(monthColumns, EmptyObj) @@ YOPField(rd, "") @@ AccessTypeField(rd, "")
    @@ [Institution_Name |-> IF institutionName = "" THEN "No Data" ELSE institutionName,
        Institution_ID |-> institutionId,
        Title |-> "No usage data for this period",
        Publisher |-> "", Publisher_ID |-> "", Platform |-> "",
        DOI |-> "", Proprietary_ID |-> "", Print_ISSN |-> "",
        Online_ISSN |-> "", URI |-> "",
        Metric_Type |-> "No Data",
        Reporting_Period_Total |-> 0]

\* A JSON body of null makes jsonData.Report_Header throw a TypeError.
JsonNull == [null |-> TRUE]

processApiResponse(jsonData, rd, account) ==
  IF Has(jsonData, "null")
  THEN [threw |-> TRUE,
        message |-> "Cannot read properties of null (reading 'Report_Header')"]
  ELSE
    LET institutionName ==
          IF Has(jsonData, "Report_Header")
          THEN GetOr(jsonData.Report_Header, "Institution_Name", "")
          ELSE ""
        institutionId == getInstitutionId(jsonData)
        reportItems == IF Has(jsonData, "Report_Items") THEN jsonData.Report_Items ELSE <<>>
        monthColumns == getMonthColumns(rd.begin_date, rd.end_date)
    IN IF Len(reportItems) > 0
       THEN [threw |-> FALSE,
             entries |->
               IF isVersion51(rd, reportItems)
               THEN FlattenSeqs([k \in 1..Len(reportItems) |->
                      Item51Entries(reportItems[k], institutionName, institutionId,
                                    rd, monthColumns)])
               ELSE FlattenSeqs([k \in 1..Len(reportItems) |->
                      Item5Entries(reportItems[k], institutionName, institutionId,
                                   rd, monthColumns)]),
             success |-> TRUE]
       ELSE [threw |-> FALSE,
             entries |-> <<noDataEntry(institutionName, institutionId, rd, monthColumns)>>,
             success |-> TRUE]

(***************************************************************************)
(* Pivot Aggregator: formatAsPivot.  A totals object {total, <month>...}   *)
(* is [total |-> n, months |-> [label |-> n]].                             *)
(***************************************************************************)
accessTypeOrder == <<"Controlled", "Free_To_Read", "Open">>

metricOrder ==
  <<"Total_Item_Investigations", "Total_Item_Requests",
    "Unique_Item_Investigations", "Unique_Item_Requests">>

ZeroTotals(monthColumns) ==
  [total |-> 0, months |-> [mo \in Range(monthColumns) |-> 0]]

AddTotals(a, b) ==
  [total |-> a.total + b.total,
   months |-> [mo \in DOMAIN a.months |-> a.months[mo] + b.months[mo]]]

RECURSIVE SumTotals(_, _)
\* a totals object initialised to 0 and then += each of ts, in order
SumTotals(ts, monthColumns) ==
  IF ts = <<>> THEN ZeroTotals(monthColumns)
  ELSE AddTotals(SumTotals(SubSeq(ts, 1, Len(ts) - 1), monthColumns), ts[Len(ts)])

\* a groupedData cell: the += of the rows that fall into it
CellTotals(rows, monthColumns) ==
  SumTotals([k \in 1..Len(rows) |->
               [total |-> rows[k].Reporting_Period_Total,
                months |-> [mo \in Range(monthColumns) |-> rows[k][mo]]]],
            monthColumns)

PivotRow(label, level, totals, monthColumns) ==
  [label |-> label, level |-> level, total |-> totals.total,
   months |-> [k \in 1..Len(monthColumns) |-> totals.months[monthColumns[k]]]]

\* the elements of `order` that are keys of the grouping, in that order
PresentIn(order, keys) == Filter(order, LAMBDA x : x \in keys)

\* ---- report type tr_j3: by Access_Type, then Metric_Type -----------------
AccessKey(row) == GetOr(row, "Access_Type", "Unknown")

AccessKeys(instRows) == {AccessKey(instRows[k]) : k \in DOMAIN instRows}

J3Cell(instRows, accessType, metricType, monthColumns) ==
  CellTotals(Filter(instRows, LAMBDA r : AccessKey(r) = accessType
                                         /\ r.Metric_Type = metricType),
             monthColumns)

J3Metrics(instRows, accessType) ==
  PresentIn(metricOrder,
            {instRows[k].Metric_Type :
               k \in {j \in DOMAIN instRows : AccessKey(instRows[j]) = accessType}})

J3AccessTotals(instRows, accessType, monthColumns) ==
  LET ms == J3Metrics(instRows, accessType)
  IN SumTotals([k \in 1..Len(ms) |-> J3Cell(instRows, accessType, ms[k], monthColumns)],
               monthColumns)

\* the access types the two emission loops visit
J3EmittedAccessTypes(instRows) == PresentIn(accessTypeOrder, AccessKeys(instRows))

J3InstTotals(instRows, monthColumns) ==
  LET as == J3EmittedAccessTypes(instRows)
  IN SumTotals([k \in 1..Len(as) |-> J3AccessTotals(instRows, as[k], monthColumns)],
               monthColumns)

J3Rows(instName, instRows, monthColumns) ==
  LET as == J3EmittedAccessTypes(instRows)
  IN <<PivotRow(instName, 0, J3InstTotals(instRows, monthColumns), monthColumns)>>
     \o FlattenSeqs([k \in 1..Len(as) |->
          LET ms == J3Metrics(instRows, as[k])
          IN <<PivotRow(as[k], 1, J3AccessTotals(instRows, as[k], monthColumns),
                        monthColumns)>>
             \o [j \in 1..Len(ms) |->
                   PivotRow(ms[j], 2, J3Cell(instRows, as[k], ms[j], monthColumns),
                            monthColumns)]])

\* ---- Array.prototype.sort and Object.keys --------------------------------
\* where x goes in a sorted prefix: after the last element not greater than x
InsertSorted(sorted, x, Cmp(_, _)) ==
  LET le == {j \in 1..Len(sorted) : Cmp(sorted[j], x) <= 0}
      p == IF le = {} THEN 0 ELSE CHOOSE j \in le : \A q \in le : q <= j
  IN SubSeq(sorted, 1, p) \o <<x>> \o SubSeq(sorted, p + 1, Len(sorted))

\* a stable insertion sort under the comparator Cmp
ArraySort(s, Cmp(_, _)) ==
  LET sorted[n \in 0..Len(s)] ==
        IF n = 0 THEN <<>> ELSE InsertSorted(sorted[n - 1], s[n], Cmp)
  IN sorted[Len(s)]

\* the distinct elements of s in order of first appearance (property insertion order)
Distinct(s) ==
  LET first == SelectIdx([k \in 1..Len(s) |-> k],
                         LAMBDA k : \A j \in 1..(k - 1) : s[j] # s[k], 1)
  IN [n \in 1..Len(first) |-> s[first[n]]]

\* the UTF-16 code units of the strings that are compared by sort()
CodeUnits ==
  ("" :> <<>>)
  @@ ("ERROR" :> <<69, 82, 82, 79, 82>>)
  @@ ("Alpha Univ" :> <<65, 108, 112, 104, 97, 32, 85, 110, 105, 118>>)
  @@ ("Beta Univ" :> <<66, 101, 116, 97, 32, 85, 110, 105, 118>>)

\* a sorts before b: at the first position where they differ a has the
\* smaller code unit, or a is a proper prefix of b
SeqLess(a, b) ==
  \E k \in 1..Len(b) :
    /\ \A j \in 1..(k - 1) : j <= Len(a) /\ a[j] = b[j]
    /\ k > Len(a) \/ (k - 1 < Len(a) /\ a[k] < b[k])

\* the default comparator of sort(): strings by code units
DefaultCompare(a, b) ==
  IF a = b THEN 0 ELSE IF SeqLess(CodeUnits[a], CodeUnits[b]) THEN 0 - 1 ELSE 1

\* parseInt on the property keys of the model; a key outside the table is NaN
ParseIntTable == ("2019" :> 2019) @@ ("2021" :> 2021)

\* Object.keys: integer-like keys ascending, then the others in insertion order
ObjectKeys(inserted) ==
  LET ks == Distinct(inserted)
      ints == Filter(ks, LAMBDA x : x \in DOMAIN ParseIntTable)
      strs == Filter(ks, LAMBDA x : x \notin DOMAIN ParseIntTable)
  IN ArraySort(ints, LAMBDA a, b : ParseIntTable[a] - ParseIntTable[b]) \o strs

\* ---- report type tr_j4: by YOP, then Metric_Type --------------------------
YopKey(row) == GetOr(row, "YOP", "Unknown")

J4Keys(instRows) == ObjectKeys([k \in 1..Len(instRows) |-> YopKey(instRows[k])])

\* the comparator of sortedYops; NaN compares as 0
YopCompare(a, b) ==
  IF a = "Unknown" THEN 1
  ELSE IF b = "Unknown" THEN 0 - 1
  ELSE IF a \notin DOMAIN ParseIntTable \/ b \notin DOMAIN ParseIntTable THEN 0
  ELSE ParseIntTable[b] - ParseIntTable[a]

J4SortedYops(instRows) == ArraySort(J4Keys(instRows), YopCompare)

J4Cell(instRows, yop, metricType, monthColumns) ==
  CellTotals(Filter(instRows, LAMBDA r : YopKey(r) = yop /\ r.Metric_Type = metricType),
             monthColumns)

J4Metrics(instRows, yop) ==
  PresentIn(metricOrder,
            {instRows[k].Metric_Type :
               k \in {j \in DOMAIN instRows : YopKey(instRows[j]) = yop}})

J4YopTotals(instRows, yop, monthColumns) ==
  LET ms == J4Metrics(instRows, yop)
  IN SumTotals([k \in 1..Len(ms) |-> J4Cell(instRows, yop, ms[k], monthColumns)],
               monthColumns)

J4InstTotals(instRows, monthColumns) ==
  LET ys == J4Keys(instRows)
  IN SumTotals([k \in 1..Len(ys) |-> J4YopTotals(instRows, ys[k], monthColumns)],
               monthColumns)

J4Rows(instName, instRows, monthColumns) ==
  LET ys == J4SortedYops(instRows)
  IN <<PivotRow(instName, 0, J4InstTotals(instRows, monthColumns), monthColumns)>>
     \o FlattenSeqs([k \in 1..Len(ys) |->
          LET ms == J4Metrics(instRows, ys[k])
          IN <<PivotRow(ys[k], 1, J4YopTotals(instRows, ys[k], monthColumns),
                        monthColumns)>>
             \o [j \in 1..Len(ms) |->
                   PivotRow(ms[j], 2, J4Cell(instRows, ys[k], ms[j], monthColumns),
                            monthColumns)]])

\* ---- every other report type: by Metric_Type only -------------------------
OtherCell(instRows, metricType, monthColumns) ==
  CellTotals(Filter(instRows, LAMBDA r : r.Metric_Type = metricType), monthColumns)

OtherKeys(instRows) == ObjectKeys([k \in 1..Len(instRows) |-> instRows[k].Metric_Type])

OtherInstTotals(instRows, monthColumns) ==
  LET ks == OtherKeys(instRows)
  IN SumTotals([k \in 1..Len(ks) |-> OtherCell(instRows, ks[k], monthColumns)],
               monthColumns)

\* the metric types the emission loop visits
OtherEmittedMetrics(instRows) == PresentIn(metricOrder, Range(OtherKeys(instRows)))

OtherRows(instName, instRows, monthColumns) ==
  LET ms == OtherEmittedMetrics(instRows)
  IN <<PivotRow(instName, 0, OtherInstTotals(instRows, monthColumns), monthColumns)>>
     \o [j \in 1..Len(ms) |->
           PivotRow(ms[j], 1, OtherCell(instRows, ms[j], monthColumns), monthColumns)]

\* ---- the whole pivot -------------------------------------------------------
IsValidRow(r) == r.Title # "ERROR" /\ r.Metric_Type # "No Data"

IsErrorRow(r) == r.Title = "ERROR" \/ r.Metric_Type = "No Data"

validData(data) == Filter(data, IsValidRow)

errorData(data) == Filter(data, IsErrorRow)

\* Object.keys(byInstitution).sort()
\* variant: the institutions in the order of Object.keys, without sort()
sortedInstitutions_InsertionOrder(data) ==
  LET valid == validData(data)
  IN ObjectKeys([k \in 1..Len(valid) |-> valid[k].Institution_Name])

sortedInstitutions(data) ==
  LET valid == validData(data)
  IN ArraySort(ObjectKeys([k \in 1..Len(valid) |-> valid[k].Institution_Name]),
             DefaultCompare)

\* byInstitution[instName]
InstRows(data, instName) ==
  Filter(validData(data), LAMBDA r : r.Institution_Name = instName)

InstTotals(reportType, instRows, monthColumns) ==
  IF reportType = "tr_j3" THEN J3InstTotals(instRows, monthColumns)
  ELSE IF reportType = "tr_j4" THEN J4InstTotals(instRows, monthColumns)
  ELSE OtherInstTotals(instRows, monthColumns)

\* the pivot rows of one institution: its level-0 row, then its nested rows
InstBlock(reportType, instName, instRows, monthColumns) ==
  IF reportType = "tr_j3" THEN J3Rows(instName, instRows, monthColumns)
  ELSE IF reportType = "tr_j4" THEN J4Rows(instName, instRows, monthColumns)
  ELSE OtherRows(instName, instRows, monthColumns)

\* variant: the grand total is summed over the valid rows themselves
grandTotals_FromRows(data, rd) ==
  CellTotals(validData(data), getMonthColumns(rd.begin_date, rd.end_date))

grandTotals(data, rd) ==
  LET monthColumns == getMonthColumns(rd.begin_date, rd.end_date)
      insts == sortedInstitutions(data)
  IN SumTotals([k \in 1..Len(insts) |->
                  InstTotals(toLowerCase(rd.report_type), InstRows(data, insts[k]),
                             monthColumns)],
               monthColumns)

pivotRows(data, rd) ==
  LET monthColumns == getMonthColumns(rd.begin_date, rd.end_date)
      insts == sortedInstitutions(data)
  IN FlattenSeqs([k \in 1..Len(insts) |->
        InstBlock(toLowerCase(rd.report_type), insts[k], InstRows(data, insts[k]),
                  monthColumns)])
     \o <<PivotRow("Grand Total", 0, grandTotals(data, rd), monthColumns)>>

\* ---- rendering of the pivot as text ----------------------------------------
\* A rendered text is the sequence of its lines (csvRows before join('\n'));
\* the empty string '' is the empty sequence.
RECURSIVE Join(_, _)
\* Array.prototype.join
Join(ss, sep) ==
  IF ss = <<>> THEN ""
  ELSE IF Len(ss) = 1 THEN ss[1]
  ELSE ss[1] \o sep \o Join(Tail(ss), sep)

Quoted(text) == "\"" \o text \o "\""

\* '  '.repeat(level)
Indent(level) == IF level = 0 THEN "" ELSE IF level = 1 THEN "  " ELSE "    "

PivotLine(row) ==
  Join(<<Quoted(Indent(row.level) \o row.label), ToString(row.total)>>
         \o [k \in 1..Len(row.months) |-> ToString(row.months[k])],
       ",")

ErrorLine(row) == Quoted(row.Institution_ID) \o "," \o Quoted(row.Title)

ErrorsMarker == Quoted("--- Errors ---")

formatAsPivot(data, rd) ==
  LET monthColumns == getMonthColumns(rd.begin_date, rd.end_date)
      headers == <<"", "Reporting_Period_Total">> \o monthColumns
      rows == pivotRows(data, rd)
      errs == errorData(data)
  IN <<Join([k \in 1..Len(headers) |-> Quoted(headers[k])], ",")>>
     \o [k \in 1..Len(rows) |-> PivotLine(rows[k])]
     \o (IF Len(errs) > 0
         THEN <<"", ErrorsMarker>> \o [k \in 1..Len(errs) |-> ErrorLine(errs[k])]
         ELSE <<>>)

(***************************************************************************)
(* Flat CSV Renderer: convertToCSV.                                        *)
(***************************************************************************)
baseColumns ==
  <<"Institution_Name", "Institution_ID", "Title", "Publisher", "Publisher_ID",
    "Platform", "DOI", "Proprietary_ID", "Print_ISSN", "Online_ISSN", "URI">>

\* The strings of the model that contain a quote character, cut at their
\* quotes; a string that is not listed contains none.
QuoteSplit == ("The \"Q\" Journal" :> <<"The ", "\"", "Q", "\"", " Journal">>)

\* variant: replace('"', '""') without the g flag doubles the first quote only
EscapeQuotes_FirstOnly(text) ==
  IF text \notin DOMAIN QuoteSplit THEN text
  ELSE LET parts == QuoteSplit[text]
           first == CHOOSE k \in 1..Len(parts) :
                      parts[k] = "\"" /\ \A q \in 1..(k - 1) : parts[q] # "\""
       IN Join([k \in 1..Len(parts) |-> IF k = first THEN "\"\"" ELSE parts[k]], "")

\* String.prototype.replace(/"/g, '""'): every quote character is doubled
EscapeQuotes(text) ==
  IF text \notin DOMAIN QuoteSplit THEN text
  ELSE LET parts == QuoteSplit[text]
       IN Join([k \in 1..Len(parts) |-> IF parts[k] = "\"" THEN "\"\"" ELSE parts[k]], "")

csvHeaders(rd) ==
  baseColumns
    \o (IF IsTRJ4(rd) THEN <<"YOP">> ELSE <<>>)
    \o (IF IsTRJ3(rd) THEN <<"Access_Type">> ELSE <<>>)
    \o <<"Metric_Type", "Reporting_Period_Total">>
    \o getMonthColumns(rd.begin_date, rd.end_date)

\* the value of column h of a row: numbers print as decimals
csvValue(row, h, rd) ==
  IF ~Has(row, h) THEN Quoted("")
  ELSE IF h = "Reporting_Period_Total"
          \/ h \in Range(getMonthColumns(rd.begin_date, rd.end_date))
       THEN Quoted(ToString(row[h]))
       ELSE Quoted(EscapeQuotes(row[h]))

convertToCSV(data, rd) ==
  IF Len(data) = 0 THEN <<>>
  ELSE LET headers == csvHeaders(rd)
       IN <<Join([k \in 1..Len(headers) |-> Quoted(headers[k])], ",")>>
          \o [r \in 1..Len(data) |->
                Join([k \in 1..Len(headers) |-> csvValue(data[r], headers[k], rd)], ",")]

(***************************************************************************)
(* Summary Computer and generateFilename.                                  *)
(***************************************************************************)
\* the date of the run as YYYYMMDD
Today == "20240401"

generateFilename(rd) ==
  "bulk_counter_" \o GetOr(rd, "format", "5") \o "-" \o toLowerCase(rd.report_type)
    \o "_" \o Today

totalUsage(data) ==
  LET rs == Filter(data, LAMBDA r : r.Title # "ERROR")
  IN SumSeq([k \in 1..Len(rs) |-> rs[k].Reporting_Period_Total])

uniquePlatforms(data) ==
  Cardinality({data[k].Platform : k \in DOMAIN data} \ {""})

summaryMetricTypes(data) ==
  LET ms == Distinct(Filter([k \in 1..Len(data) |-> data[k].Metric_Type],
                            LAMBDA x : x # "" /\ x # "ERROR" /\ x # "No Data"))
  IN SubSeq(ms, 1, IF Len(ms) < 5 THEN Len(ms) ELSE 5)

\* the fields common to the batch response body and the complete event
FinalResult(data, rd, nSuccessful, nFailed) ==
  [csv |-> IF rd.formatted THEN formatAsPivot(data, rd) ELSE convertToCSV(data, rd),
   filename |-> generateFilename(rd) \o (IF rd.formatted THEN "_formatted" ELSE ""),
   successful |-> nSuccessful,
   failed |-> nFailed,
   total |-> Len(rd.accounts),
   summary |-> [totalUsage |-> totalUsage(data),
                uniquePlatforms |-> uniquePlatforms(data),
                metricTypes |-> summaryMetricTypes(data)]]

(***************************************************************************)
(* The inputs of a run: request bodies and what fetch() can give.          *)
(***************************************************************************)
Accounts ==
  <<[customer_id |-> "c1", requestor_id |-> "r1"],
    [customer_id |-> "c2", requestor_id |-> "r2"],
    [customer_id |-> "c3", requestor_id |-> "r3"],
    [customer_id |-> "c4", requestor_id |-> "r4"]>>

ReportTypes == {"tr_j1", "TR_J3", "tr_j4"}

Periods ==
  {[begin_date |-> [y |-> 2023, m |-> 12, d |-> 15], end_date |-> [y |-> 2024, m |-> 1, d |-> 31]]}

Requests ==
  {[report_type |-> rt, begin_date |-> p.begin_date, end_date |-> p.end_date,
    formatted |-> fm, accounts |-> SubSeq(Accounts, 1, n)] @@ fo :
     rt \in ReportTypes, p \in Periods, fm \in BOOLEAN, n \in 0..MaxAccounts,
     fo \in {EmptyObj, [format |-> "5"], [format |-> "5.1"]}}

HeaderAlpha ==
  [Institution_Name |-> "Alpha Univ",
   Institution_ID |-> [isArray |-> TRUE,
                       list |-> <<[Type |-> "ISNI", Value |-> "0000"],
                                  [Type |-> "Proprietary", Value |-> "I1"]>>]]

HeaderBeta ==
  [Institution_Name |-> "Beta Univ",
   Institution_ID |-> [isArray |-> FALSE,
                       obj |-> [Proprietary |-> [isArray |-> TRUE, list |-> <<"I2">>]]]]

Jan24 == [y |-> 2024, m |-> 1]
Feb24 == [y |-> 2024, m |-> 2]
Dec23 == [y |-> 2023, m |-> 12]

\* version 5 items
LegacyItemA ==
  [Title |-> "Journal A", Publisher |-> "Pub", Platform |-> "Plat",
   Item_ID |-> [isArray |-> TRUE,
                list |-> <<[Type |-> "DOI", Value |-> "10.1/a"],
                           [Type |-> "Print_ISSN", Value |-> "1111-1111"]>>],
   Publisher_ID |-> [isArray |-> TRUE, list |-> <<[Type |-> "Proprietary", Value |-> "P1"]>>],
   Access_Type |-> "Controlled", YOP |-> "2021",
   Performance |->
     <<[Period |-> [Begin_Date |-> [y |-> 2024, m |-> 1, d |-> 15]],
        Instance |-> <<[Metric_Type |-> "Total_Item_Requests", Count |-> 5],
                       [Metric_Type |-> "Unique_Item_Requests", Count |-> 3]>>],
       [Period |-> [Begin_Date |-> [y |-> 2024, m |-> 2, d |-> 1]],
        Instance |-> <<[Metric_Type |-> "Total_Item_Requests", Count |-> 2]>>]>>]

LegacyItemB ==
  [Title |-> "Journal B", Platform |-> "Plat2",
   Year_of_Publication |-> "2019",
   Performance |->
     <<[Period |-> [Begin_Date |-> [y |-> 2023, m |-> 12, d |-> 1]],
        Instance |-> <<[Metric_Type |-> "Total_Item_Requests", Count |-> 4],
                       [Metric_Type |-> "Limit_Exceeded", Count |-> 1]>>]>>]

\* version 5.1 items
CurrentItemA ==
  [Title |-> "Journal C", Publisher |-> "Pub", Platform |-> "Plat",
   Item_ID |-> [isArray |-> FALSE, obj |-> [DOI |-> "10.1/c", Online_ISSN |-> "2222-2222"]],
   Publisher_ID |-> [isArray |-> FALSE,
                     obj |-> [Proprietary |-> [isArray |-> TRUE, list |-> <<"P2">>]]],
   Attribute_Performance |->
     <<[Access_Type |-> "Controlled", YOP |-> "2019",
        Performance |-> <<<<"Total_Item_Requests", <<<<Jan24, 3>>, <<Feb24, 4>>>>>>>>],
       [Access_Type |-> "Other_Access", YOP |-> "2021",
        Performance |-> <<<<"Unique_Item_Requests", <<<<Dec23, 1>>>>>>>>]>>]

CurrentItemB ==
  [Title |-> "Journal D", Platform |-> "Plat",
   Attribute_Performance |->
     <<[Access_Type |-> "Free_To_Read",
        Performance |-> <<<<"Total_Item_Investigations", <<<<Jan24, 1>>>>>>,
                          <<"Limit_Exceeded", <<<<Jan24, 2>>>>>>>>]>>]

\* the bodies a response can carry, by name, and what response.json() parses them to
Bodies ==
  [null |-> JsonNull,
   empty_alpha |-> [Report_Header |-> HeaderAlpha, Report_Items |-> <<>>],
   empty_object |-> EmptyObj,
   legacy_alpha |-> [Report_Header |-> HeaderAlpha, Report_Items |-> <<LegacyItemA>>],
   legacy_beta |-> [Report_Header |-> HeaderBeta, Report_Items |-> <<LegacyItemB, LegacyItemA>>],
   current_alpha |-> [Report_Header |-> HeaderAlpha, Report_Items |-> <<CurrentItemA>>],
   current_beta |-> [Report_Header |-> HeaderBeta, Report_Items |-> <<CurrentItemB>>]]

\* what `await fetch(apiUrl)` gives: a rejection, or a response
Outcomes ==
  {[kind |-> "reject", message |-> "Network connection lost"],
   [kind |-> "response", ok |-> FALSE, status |-> 500]}
  \cup {[kind |-> "response", ok |-> TRUE, status |-> 200, body |-> b] : b \in DOMAIN Bodies}

(***************************************************************************)
(* The harvest loop: processAccounts and processWithProgress.              *)
(***************************************************************************)
\* the try block of one iteration: what it throws, or what processApiResponse returns
TryBlock(outcome, rd, account) ==
  IF outcome.kind = "reject"
  THEN [threw |-> TRUE, message |-> outcome.message]
  ELSE IF ~outcome.ok
  THEN [threw |-> TRUE, message |-> "API returned " \o ToString(outcome.status)]
  ELSE processApiResponse(Bodies[outcome.body], rd, account)

\* where the loop stands after `done` accounts
LoopPc(done) ==
  IF done < Len(requestData.accounts)
  THEN (IF endpoint = "stream" THEN "progress" ELSE "fetch")
  ELSE "finish"

\* variant: no catch, an error of an account ends the handler
LoopBody_NoCatch(outcome) ==
  LET account == requestData.accounts[i + 1]
      processedData == TryBlock(outcome, requestData, account)
  IN /\ results' = IF processedData.threw THEN results ELSE results \o processedData.entries
     /\ successful' = IF processedData.threw THEN successful ELSE successful + 1
     /\ failed' = failed
     /\ fetched' = Append(fetched, outcome)
     /\ i' = IF processedData.threw THEN i ELSE i + 1
     /\ pc' = IF processedData.threw THEN "done" ELSE LoopPc(i + 1)

\* variant: the rows of an account are put in front of the accumulator
LoopBody_Unshift(outcome) ==
  LET account == requestData.accounts[i + 1]
      processedData == TryBlock(outcome, requestData, account)
  IN /\ results' =
          IF processedData.threw
          THEN <<createErrorEntry(processedData.message, requestData, account)>> \o results
          ELSE processedData.entries \o results
     /\ successful' =
          IF ~processedData.threw /\ processedData.success THEN successful + 1
          ELSE successful
     /\ failed' =
          IF processedData.threw \/ ~processedData.success THEN failed + 1 ELSE failed
     /\ fetched' = Append(fetched, outcome)
     /\ i' = i + 1
     /\ pc' = LoopPc(i + 1)

\* one iteration of the for loop from the fetch on: try, catch, counters
LoopBody(outcome) ==
  LET account == requestData.accounts[i + 1]
      processedData == TryBlock(outcome, requestData, account)
  IN /\ results' =
          IF processedData.threw
          THEN Append(results, createErrorEntry(processedData.message, requestData, account))
          ELSE results \o processedData.entries
     /\ successful' =
          IF ~processedData.threw /\ processedData.success THEN successful + 1
          ELSE successful
     /\ failed' =
          IF processedData.threw \/ ~processedData.success THEN failed + 1 ELSE failed
     /\ fetched' = Append(fetched, outcome)
     /\ i' = i + 1
     /\ pc' = LoopPc(i + 1)

Init ==
  /\ requestData \in Requests
  /\ endpoint \in {"batch", "stream"}
  /\ pc = IF Len(requestData.accounts) = 0 THEN "finish"
          ELSE IF endpoint = "stream" THEN "progress" ELSE "fetch"
  /\ i = 0
  /\ results = <<>>
  /\ successful = 0
  /\ failed = 0
  /\ events = <<>>
  /\ writerClosed = 0
  /\ fetched = <<>>
  /\ result = [type |-> "none"]
  /\ call = [fn |-> "none"]

\* variant: the progress event counts from i, not from i + 1
SendProgress_ZeroBased ==
  /\ endpoint = "stream"
  /\ pc = "progress"
  /\ events' = Append(events,
       [type |-> "progress",
        current |-> i,
        total |-> Len(requestData.accounts),
        percentage |-> (200 * i + Len(requestData.accounts))
                         \div (2 * Len(requestData.accounts)),
        currentAccount |-> requestData.accounts[i + 1].customer_id,
        successful |-> successful,
        failed |-> failed])
  /\ pc' = "fetch"
  /\ UNCHANGED <<requestData, endpoint, call, i, results, successful, failed,
                 writerClosed, fetched, result>>

\* processWithProgress: the progress event written before the account is fetched
SendProgress ==
  /\ endpoint = "stream"
  /\ pc = "progress"
  /\ events' = Append(events,
       [type |-> "progress",
        current |-> i + 1,
        total |-> Len(requestData.accounts),
        percentage |-> (200 * (i + 1) + Len(requestData.accounts))
                         \div (2 * Len(requestData.accounts)),
        currentAccount |-> requestData.accounts[i + 1].customer_id,
        successful |-> successful,
        failed |-> failed])
  /\ pc' = "fetch"
  /\ UNCHANGED <<requestData, endpoint, call, i, results, successful, failed,
                 writerClosed, fetched, result>>

\* processWithProgress: the rest of the iteration
StreamAccount ==
  /\ endpoint = "stream"
  /\ pc = "fetch"
  /\ \E outcome \in Outcomes : LoopBody(outcome)
  /\ UNCHANGED <<requestData, endpoint, call, events, writerClosed, result>>

\* processAccounts: one iteration
BatchAccount ==
  /\ endpoint = "batch"
  /\ pc = "fetch"
  /\ \E outcome \in Outcomes : LoopBody(outcome)
  /\ UNCHANGED <<requestData, endpoint, call, events, writerClosed, result>>

\* processWithProgress after the loop: the complete event
StreamFinish ==
  /\ endpoint = "stream"
  /\ pc = "finish"
  /\ result' = [type |-> "complete"] @@ FinalResult(results, requestData, successful, failed)
  /\ events' = Append(events, result')
  /\ pc' = "close"
  /\ UNCHANGED <<requestData, endpoint, call, i, results, successful, failed,
                 writerClosed, fetched>>

\* handleRequest: processWithProgress(...).then(() => writer.close())
CloseWriter ==
  /\ endpoint = "stream"
  /\ pc = "close"
  /\ writerClosed' = writerClosed + 1
  /\ pc' = "done"
  /\ UNCHANGED <<requestData, endpoint, call, i, results, successful, failed,
                 events, fetched, result>>

\* processAccounts after the loop: the response body
BatchFinish ==
  /\ endpoint = "batch"
  /\ pc = "finish"
  /\ result' = [type |-> "response"] @@ FinalResult(results, requestData, successful, failed)
  /\ pc' = "done"
  /\ UNCHANGED <<requestData, endpoint, call, i, results, successful, failed,
                 events, writerClosed, fetched>>

Next ==
  \/ SendProgress
  \/ StreamAccount
  \/ StreamFinish
  \/ CloseWriter
  \/ BatchAccount
  \/ BatchFinish

Spec == Init /\ [][Next]_vars

\* the loop and the promise chain always run on: no step waits on anything
\* but the fetch, which settles
FairSpec == Spec /\ WF_vars(Next)

(***************************************************************************)
(* The /harvest-stream endpoint with a stream that can fail: an awaited     *)
(* writer.write() rejects (the reader is gone), processWithProgress rejects *)
(* and the catch handler of handleRequest writes the error event and closes *)
(* the writer.                                                              *)
(***************************************************************************)
StreamInit == Init /\ endpoint = "stream"

\* the event handed to writer.write at this position of processWithProgress
PendingEvent ==
  IF pc = "progress"
  THEN [type |-> "progress",
        current |-> i + 1,
        total |-> Len(requestData.accounts),
        percentage |-> (200 * (i + 1) + Len(requestData.accounts))
                         \div (2 * Len(requestData.accounts)),
        currentAccount |-> requestData.accounts[i + 1].customer_id,
        successful |-> successful,
        failed |-> failed]
  ELSE [type |-> "complete"] @@ FinalResult(results, requestData, successful, failed)

\* await writer.write(...) rejects; .catch(err => { writer.write(error event); writer.close() })
WriteRejects ==
  /\ endpoint = "stream"
  /\ pc \in {"progress", "finish"}
  /\ events' = events \o <<PendingEvent, [error |-> "Network connection lost"]>>
  /\ writerClosed' = writerClosed + 1
  /\ pc' = "done"
  /\ UNCHANGED <<requestData, endpoint, call, i, results, successful, failed,
                 fetched, result>>

StreamNext ==
  \/ SendProgress
  \/ StreamAccount
  \/ StreamFinish
  \/ CloseWriter
  \/ WriteRejects

StreamSpec == StreamInit /\ [][StreamNext]_vars

(***************************************************************************)
(* Direct calls of the worker's functions: the arguments are drawn from    *)
(* bounded sets, the action of a function applies it once.                 *)
(***************************************************************************)
\* the reporting periods span MaxYearSpan + 1 calendar years
MaxYearSpan == 1

Years == 2023..(2023 + MaxYearSpan)

\* "YYYY-MM-DD" strings as [y, m, d]
Dates == [y : Years, m : 1..12, d : {1, 15, 28}]

getMonthColumnsCalls ==
  {[fn |-> "getMonthColumns", args |-> [beginDate |-> b, endDate |-> e]] : b \in Dates, e \in Dates}

\* an array-form Item_ID has at most MaxItemIds entries
MaxItemIds == 2

IdEntries ==
  [Type : {"DOI", "Proprietary", "Print_ISSN", "Online_ISSN", "ISBN"}, Value : {"v1", "v2"}]
    \cup [Type : {"DOI", "Online_ISSN"}]

RECURSIVE SeqsUpTo(_, _)
\* the sequences over S of length at most n
SeqsUpTo(S, n) ==
  IF n = 0 THEN {<<>>}
  ELSE LET shorter == SeqsUpTo(S, n - 1)
       IN shorter \cup {Append(q, x) : q \in shorter, x \in S}

\* an object-form identifier container: no Proprietary property, a plain
\* string, a one-element list
ProprietaryForms(text, element) ==
  {EmptyObj,
   [Proprietary |-> [isArray |-> FALSE, str |-> text]],
   [Proprietary |-> [isArray |-> TRUE, list |-> <<element>>]]}

extractItemDataCalls ==
  {[fn |-> "extractItemData",
    args |-> [item |-> [Title |-> "Journal A", Item_ID |-> [isArray |-> TRUE, list |-> l]]]] :
     l \in SeqsUpTo(IdEntries, MaxItemIds)}
  \cup
  {[fn |-> "extractItemData",
    args |-> [item |-> [Title |-> "Journal C",
                        Item_ID |-> [isArray |-> FALSE, obj |-> [DOI |-> "10.1/c"]],
                        Publisher_ID |-> [isArray |-> FALSE, obj |-> ids]]]] :
     ids \in ProprietaryForms("P9", "P2")}

getInstitutionIdCalls ==
  {[fn |-> "getInstitutionId",
    args |-> [jsonData |-> [Report_Header |->
                [Institution_Name |-> "Alpha Univ",
                 Institution_ID |-> [isArray |-> FALSE, obj |-> ids]]]]] :
     ids \in ProprietaryForms("I9", "I2")}
  \cup
  {[fn |-> "getInstitutionId", args |-> [jsonData |-> jsonData]] :
     jsonData \in {EmptyObj, [Report_Header |-> [Institution_Name |-> "Alpha Univ"]],
                   [Report_Header |-> HeaderAlpha], [Report_Header |-> HeaderBeta]}}

\* the request of a direct call of the normalizer
CallRequest(rt, fo) ==
  [report_type |-> rt, begin_date |-> [y |-> 2023, m |-> 12, d |-> 15],
   end_date |-> [y |-> 2024, m |-> 1, d |-> 31], formatted |-> FALSE,
   accounts |-> SubSeq(Accounts, 1, 1)] @@ fo

FormatHints == {EmptyObj, [format |-> "5"], [format |-> "5.1"]}

\* a version 5 item has at most MaxBlocks performance period blocks
MaxBlocks == 2

Instances ==
  {<<>>,
   <<[Metric_Type |-> "Total_Item_Requests", Count |-> 1]>>,
   <<[Metric_Type |-> "Total_Item_Requests", Count |-> 1],
     [Metric_Type |-> "Unique_Item_Requests", Count |-> 2]>>,
   <<[Metric_Type |-> "Total_Item_Requests", Count |-> 1],
     [Metric_Type |-> "Total_Item_Requests", Count |-> 2]>>}

BlockDates ==
  {[y |-> 2023, m |-> 12, d |-> 1], [y |-> 2024, m |-> 1, d |-> 1],
   [y |-> 2024, m |-> 1, d |-> 15], [y |-> 2024, m |-> 2, d |-> 1]}

Blocks ==
  {[Period |-> [Begin_Date |-> d], Instance |-> ins] : d \in BlockDates, ins \in Instances}
    \cup {[Instance |-> <<[Metric_Type |-> "Total_Item_Requests", Count |-> 1]>>]}

LegacyPayloads ==
  {[Report_Header |-> HeaderAlpha,
    Report_Items |-> <<[Title |-> "Journal A", Platform |-> "Plat", Performance |-> perf]>>] :
     perf \in SeqsUpTo(Blocks, MaxBlocks)}

\* a version 5.1 item has at most MaxAttrPerf Attribute_Performance entries
MaxAttrPerf == 2

\* the Performance objects of an entry, as Object.entries enumerates them
Performances ==
  {<<>>,
   <<<<"Total_Item_Requests", <<<<Jan24, 3>>, <<Feb24, 4>>>>>>>>,
   <<<<"Total_Item_Requests", <<<<Dec23, 1>>, <<Jan24, 2>>>>>>,
     <<"Unique_Item_Requests", <<<<Jan24, 1>>>>>>>>}

AttrPerfs ==
  {[YOP |-> yop, Performance |-> perf] @@ at :
     yop \in {"2019", "2021"}, perf \in Performances,
     at \in {EmptyObj, [Access_Type |-> "Controlled"]}}

CurrentPayloads ==
  {[Report_Header |-> HeaderAlpha,
    Report_Items |-> <<[Title |-> "Journal C", Platform |-> "Plat",
                        Attribute_Performance |-> aps]>>] :
     aps \in SeqsUpTo(AttrPerfs, MaxAttrPerf)}

\* payloads whose items are of one schema, of the other, or mixed
MixedPayloads ==
  {[Report_Header |-> HeaderAlpha, Report_Items |-> items] :
     items \in {<<LegacyItemA>>, <<CurrentItemA>>, <<LegacyItemA, CurrentItemA>>,
                <<CurrentItemA, LegacyItemA>>, <<LegacyItemB, LegacyItemA>>,
                <<CurrentItemB, CurrentItemA>>}}

processApiResponseCalls ==
  {[fn |-> "processApiResponse",
    args |-> [jsonData |-> jsonData, requestData |-> CallRequest("tr_j1", EmptyObj), account |-> Accounts[1]]] :
     jsonData \in LegacyPayloads}
  \cup
  {[fn |-> "processApiResponse",
    args |-> [jsonData |-> jsonData, requestData |-> CallRequest(rt, EmptyObj), account |-> Accounts[1]]] :
     jsonData \in CurrentPayloads, rt \in {"TR_J3", "tr_j4"}}
  \cup
  {[fn |-> "processApiResponse",
    args |-> [jsonData |-> jsonData, requestData |-> CallRequest("TR_J3", fo), account |-> Accounts[1]]] :
     jsonData \in MixedPayloads, fo \in FormatHints}

\* convertToCSV is called with at most MaxRows accumulated rows
MaxRows == 2

\* a row of the version 5 path for an item with the given title
CsvRow(rt, title) ==
  processApiResponse(
    [Report_Header |-> HeaderAlpha,
     Report_Items |-> <<[Title |-> title, Platform |-> "Plat", Access_Type |-> "Open",
                         YOP |-> "2021",
                         Performance |-> <<[Period |-> [Begin_Date |-> [y |-> 2024, m |-> 1, d |-> 1]],
                                            Instance |-> <<[Metric_Type |-> "Total_Item_Requests",
                                                            Count |-> 5]>>]>>]>>],
    CallRequest(rt, EmptyObj), Accounts[1]).entries[1]

\* the row of an instance that has no Metric_Type: the property is undefined
WithoutMetricType(row) == [h \in DOMAIN row \ {"Metric_Type"} |-> row[h]]

CsvRows(rt) ==
  {CsvRow(rt, "Journal A"), CsvRow(rt, "The \"Q\" Journal"),
   WithoutMetricType(CsvRow(rt, "Journal A")),
   createErrorEntry("API returned 500", CallRequest(rt, EmptyObj), Accounts[1])}

convertToCSVCalls ==
  UNION {{[fn |-> "convertToCSV", args |-> [data |-> data, requestData |-> CallRequest(rt, EmptyObj)]] :
            data \in SeqsUpTo(CsvRows(rt), MaxRows)} : rt \in ReportTypes}

\* formatAsPivot is called with at most MaxPivotRows accumulated rows
MaxPivotRows == 3

\* the row of the version 5.1 path for one Attribute_Performance entry
PivotInputRow(rt, header, attrPerf) ==
  processApiResponse(
    [Report_Header |-> header,
     Report_Items |-> <<[Title |-> "Journal C", Platform |-> "Plat",
                         Attribute_Performance |-> <<attrPerf>>]>>],
    CallRequest(rt, EmptyObj), Accounts[1]).entries[1]

\* tr_j4 rows: a numeric YOP, a YOP that is not a number, no YOP
J4InputRows ==
  {PivotInputRow("tr_j4", header,
                 [Performance |-> <<<<"Total_Item_Requests", <<<<Jan24, 3>>>>>>>>] @@ yop) :
     header \in {HeaderAlpha, HeaderBeta},
     yop \in {[YOP |-> "2019"], [YOP |-> "2021"], [YOP |-> "In Press"], EmptyObj}}

\* rows of a report type without nested grouping
J1InputRows ==
  {PivotInputRow("tr_j1", header, [Performance |-> <<<<metricType, <<<<Jan24, 3>>>>>>>>]) :
     header \in {HeaderAlpha, HeaderBeta},
     metricType \in {"Total_Item_Requests", "Unique_Item_Requests"}}

\* formatAsPivot is called for a request with formatted set
PivotRequest(rt) == [CallRequest(rt, EmptyObj) EXCEPT !.formatted = TRUE]

formatAsPivotCalls ==
  {[fn |-> "formatAsPivot", args |-> [data |-> data, requestData |-> PivotRequest("tr_j4")]] :
     data \in SeqsUpTo(J4InputRows, MaxPivotRows)}
  \cup
  {[fn |-> "formatAsPivot", args |-> [data |-> data, requestData |-> PivotRequest("tr_j1")]] :
     data \in SeqsUpTo(J1InputRows, MaxPivotRows)}

Calls ==
  getMonthColumnsCalls \cup extractItemDataCalls \cup processApiResponseCalls
    \cup convertToCSVCalls \cup formatAsPivotCalls \cup getInstitutionIdCalls

\* the harvest loop is idle during a direct call
Idle ==
  /\ requestData = EmptyObj
  /\ endpoint = "none"
  /\ pc = "done"
  /\ i = 0
  /\ results = <<>>
  /\ successful = 0
  /\ failed = 0
  /\ events = <<>>
  /\ writerClosed = 0
  /\ fetched = <<>>
  /\ result = [type |-> "none"]

Pending(fn) == call.fn = fn /\ ~Has(call, "value")

Return(value) ==
  /\ call' = call @@ [value |-> value]
  /\ UNCHANGED <<requestData, endpoint, pc, i, results, successful, failed,
                 events, writerClosed, fetched, result>>

CallInit == call \in Calls /\ Idle

CallGetMonthColumns ==
  /\ Pending("getMonthColumns")
  /\ Return(getMonthColumns(call.args.beginDate, call.args.endDate))

CallExtractItemData ==
  /\ Pending("extractItemData")
  /\ Return(extractItemData(call.args.item))

CallGetInstitutionId ==
  /\ Pending("getInstitutionId")
  /\ Return(getInstitutionId(call.args.jsonData))

CallProcessApiResponse ==
  /\ Pending("processApiResponse")
  /\ Return(processApiResponse(call.args.jsonData, call.args.requestData, call.args.account))

CallConvertToCSV ==
  /\ Pending("convertToCSV")
  /\ Return(convertToCSV(call.args.data, call.args.requestData))

CallFormatAsPivot ==
  /\ Pending("formatAsPivot")
  /\ Return(formatAsPivot(call.args.data, call.args.requestData))

CallNext ==
  \/ CallGetMonthColumns
  \/ CallExtractItemData
  \/ CallProcessApiResponse
  \/ CallConvertToCSV
  \/ CallFormatAsPivot
  \/ CallGetInstitutionId

CallSpec == CallInit /\ [][CallNext]_vars

(***************************************************************************)
(* Vocabulary of the properties.                                           *)
(***************************************************************************)
Done == pc = "done"

PivotDone == pc = "done" /\ requestData.formatted

\* the keys of a row that are not month columns
NonMonthKeys ==
  Range(baseColumns) \cup {"YOP", "Access_Type", "Metric_Type", "Reporting_Period_Total"}

SentinelMetrics == {"ERROR", "No Data"}

\* fetch gave a non-OK response, or fetch or the processing threw
IsFailure(outcome) ==
  \/ outcome.kind = "reject"
  \/ outcome.kind = "response" /\ ~outcome.ok
  \/ outcome.kind = "response" /\ outcome.ok /\ outcome.body = "null"

IsBody(outcome, b) == outcome.kind = "response" /\ outcome.ok /\ outcome.body = b

\* the message of the error a failing account raises
FailureMessage(outcome) ==
  IF outcome.kind = "reject" THEN "Network connection lost"
  ELSE IF ~outcome.ok THEN "API returned 500"
  ELSE "Cannot read properties of null (reading 'Report_Header')"

\* an iteration of the harvest loop is taken for the account at index i + 1
AccountStep == pc = "fetch" /\ i' = i + 1

\* the index after the block of the level-0 row at k: the next level-0 row
BlockEnd(rows, k) ==
  CHOOSE e \in (k + 1)..(Len(rows) + 1) :
    /\ e = Len(rows) + 1 \/ rows[e].level = 0
    /\ \A j \in (k + 1)..(e - 1) : rows[j].level # 0

\* the indexes of the level-1 rows directly beneath the level-0 row at k
ChildIdx(rows, k) == {j \in (k + 1)..(BlockEnd(rows, k) - 1) : rows[j].level = 1}

RECURSIVE SumOver(_, _)
\* the sum of f over the finite set S of its arguments
SumOver(f, S) ==
  IF S = {} THEN 0
  ELSE LET x == CHOOSE y \in S : TRUE IN f[x] + SumOver(f, S \ {x})

\* the institution rows of a pivot: level 0, the Grand Total row apart
InstIdx(rows) == {k \in 1..(Len(rows) - 1) : rows[k].level = 0}

\* C1: in the pivot, each institution's level-0 row has a total equal to the
\* sum of the totals of the level-1 rows directly beneath it, for every report
\* type and whatever metric and access types the rows carry.
C1_Level0IsSumOfChildren ==
  PivotDone =>
    LET rows == pivotRows(results, requestData)
    IN \A k \in InstIdx(rows) :
         rows[k].total = SumOver([j \in 1..Len(rows) |-> rows[j].total], ChildIdx(rows, k))

\* the lines of a rendered pivot after the "--- Errors ---" marker
LinesAfterMarker(csv) ==
  LET at == {k \in 1..Len(csv) : csv[k] = ErrorsMarker}
  IN IF at = {} THEN <<>>
     ELSE SubSeq(csv, (CHOOSE k \in at : \A q \in at : k <= q) + 1, Len(csv))

\* C2: formatAsPivot partitions the rows by metric type: every row whose
\* Metric_Type is "ERROR" or "No Data" is kept out of the institution grouping
\* and is exactly one line (Institution_ID, Title) after the "--- Errors ---"
\* marker; every other row is valid.
C2_SentinelRowsAreErrorLines ==
  PivotDone =>
    LET sentinel == Filter(results, LAMBDA r : r.Metric_Type \in SentinelMetrics)
    IN /\ validData(results) = Filter(results, LAMBDA r : r.Metric_Type \notin SentinelMetrics)
       /\ LinesAfterMarker(result.csv)
            = [k \in 1..Len(sentinel) |->
                 Quoted(sentinel[k].Institution_ID) \o "," \o Quoted(sentinel[k].Title)]

\* C3: for an account whose fetch is not OK or whose fetch or processing
\* throws, the loop appends exactly one row and no other: Institution_Name
\* "ERROR", Institution_ID the account's customer_id, Title carrying the error
\* message, Metric_Type "ERROR", total 0 and every month column 0; failed
\* grows by one and successful is unchanged.
C3_FailedAccountOneErrorRow ==
  [][(AccountStep /\ IsFailure(fetched'[i + 1])) =>
       /\ Len(results') = Len(results) + 1
       /\ SubSeq(results', 1, Len(results)) = results
       /\ LET row == results'[Len(results')]
          IN /\ row.Institution_Name = "ERROR"
             /\ row.Institution_ID = requestData.accounts[i + 1].customer_id
             /\ row.Title = "Failed: " \o FailureMessage(fetched'[i + 1])
             /\ row.Metric_Type = "ERROR"
             /\ row.Reporting_Period_Total = 0
             /\ DOMAIN row \ NonMonthKeys # {}
             /\ \A mo \in DOMAIN row \ NonMonthKeys : row[mo] = 0
       /\ failed' = failed + 1
       /\ successful' = successful]_vars

\* a failed account after a successful one, both kinds of rows accumulated
C3_Witness ==
  /\ Len(fetched) = 2
  /\ IsBody(fetched[1], "legacy_alpha")
  /\ IsFailure(fetched[2])
  /\ failed = 1
  /\ Len(results) = 3

\* an iteration of the harvest loop (either endpoint) can be taken
LoopStep == SendProgress \/ StreamAccount \/ BatchAccount

\* C4: a failure on an account never stops the run: until every account is
\* processed the loop is at work and can take its next step, whatever failed
\* before; each account is counted exactly once, and at completion
\* successful + failed is the number of accounts.
C4_FailureNeverStopsRun ==
  /\ i < Len(requestData.accounts) => pc \in {"progress", "fetch"} /\ ENABLED LoopStep
  /\ i = Len(requestData.accounts) => pc \in {"finish", "close", "done"}
  /\ successful + failed = i
  /\ Len(fetched) = i
  /\ Done => /\ result.successful + result.failed = Len(requestData.accounts)
             /\ result.total = Len(requestData.accounts)

\* a run completed although its first account failed; a later account succeeded
C4_Witness ==
  /\ Done
  /\ Len(fetched) = 2
  /\ IsFailure(fetched[1])
  /\ ~IsFailure(fetched[2])
  /\ result.successful = 1
  /\ result.failed = 1

\* C5: every accumulated row (current schema, legacy schema, No Data, ERROR)
\* carries exactly the month-column keys getMonthColumns(begin_date, end_date)
\* gives for the run, whatever months the payloads populated.
C5_SameMonthColumnsOnEveryRow ==
  \A k \in DOMAIN results :
    DOMAIN results[k] \ NonMonthKeys
      = Range(getMonthColumns(requestData.begin_date, requestData.end_date))

\* a payload that populates a month outside the run's range, then an ERROR row
C5_Witness ==
  /\ Len(fetched) = 2
  /\ IsBody(fetched[1], "current_alpha")
  /\ IsFailure(fetched[2])
  /\ Len(results) = 3
  /\ "Feb-24" \notin DOMAIN results[1]
  /\ results[1].Reporting_Period_Total = 7

\* the bodies whose payload has no report items
NoItemsBodies == {"empty_alpha", "empty_object"}

\* C6: for a fetched payload without report items processApiResponse gives
\* exactly one row, Metric_Type "No Data", institution name and id from the
\* report header when it has them, total 0 and every month column 0, and
\* success: the account counts as successful, not as failed.
C6_NoItemsOneNoDataRow ==
  [][(AccountStep /\ \E b \in NoItemsBodies : IsBody(fetched'[i + 1], b)) =>
       /\ Len(results') = Len(results) + 1
       /\ SubSeq(results', 1, Len(results)) = results
       /\ LET row == results'[Len(results')]
          IN /\ row.Metric_Type = "No Data"
             /\ IsBody(fetched'[i + 1], "empty_alpha") =>
                  row.Institution_Name = "Alpha Univ" /\ row.Institution_ID = "I1"
             /\ IsBody(fetched'[i + 1], "empty_object") => row.Institution_ID = ""
             /\ row.Reporting_Period_Total = 0
             /\ DOMAIN row \ NonMonthKeys # {}
             /\ \A mo \in DOMAIN row \ NonMonthKeys : row[mo] = 0
       /\ successful' = successful + 1
       /\ failed' = failed]_vars

\* both payloads without items were processed, one with and one without a header
C6_Witness ==
  /\ Len(fetched) = 2
  /\ IsBody(fetched[1], "empty_alpha")
  /\ IsBody(fetched[2], "empty_object")
  /\ successful = 2
  /\ Len(results) = 2

\* the spellings of the two report types, compared without regard to case
J3Spellings == {"tr_j3", "TR_J3"}

J4Spellings == {"tr_j4", "TR_J4"}

\* C7: every accumulated row has an Access_Type field exactly when the report
\* type is "tr_j3" compared case-insensitively, and a YOP field exactly when
\* it is "tr_j4" compared case-insensitively.
C7_ConditionalColumns ==
  \A k \in DOMAIN results :
    /\ "Access_Type" \in DOMAIN results[k] <=> requestData.report_type \in J3Spellings
    /\ "YOP" \in DOMAIN results[k] <=> requestData.report_type \in J4Spellings

\* rows of a payload and an ERROR row under the upper-case spelling TR_J3
C7_Witness ==
  /\ requestData.report_type = "TR_J3"
  /\ Len(fetched) = 2
  /\ IsBody(fetched[1], "legacy_alpha")
  /\ IsFailure(fetched[2])
  /\ \A k \in DOMAIN results : "Access_Type" \in DOMAIN results[k]

\* the names of the institutions that have rows with a real metric type
InstitutionsOf(data) ==
  {data[k].Institution_Name :
     k \in {j \in DOMAIN data : data[j].Metric_Type \notin SentinelMetrics}}

\* the rows of an institution with a real metric type
RowsOf(data, name) ==
  {k \in DOMAIN data : data[k].Institution_Name = name
                       /\ data[k].Metric_Type \notin SentinelMetrics}

\* C8: each institution's level-0 row carries the sum of Reporting_Period_Total
\* over all of the institution's valid rows and the per-month sums over those
\* rows, for every report type, whatever access and metric types they carry.
C8_Level0IsSumOfAllRows ==
  PivotDone =>
    LET rows == pivotRows(results, requestData)
        monthColumns == getMonthColumns(requestData.begin_date, requestData.end_date)
    IN \A name \in InstitutionsOf(results) :
         \E k \in InstIdx(rows) :
           /\ rows[k].label = name
           /\ rows[k].total =
                SumOver([j \in DOMAIN results |-> results[j].Reporting_Period_Total],
                        RowsOf(results, name))
           /\ \A c \in 1..Len(monthColumns) :
                rows[k].months[c] =
                  SumOver([j \in DOMAIN results |-> results[j][monthColumns[c]]],
                          RowsOf(results, name))

\* C9: the pivot has exactly one "Grand Total" row, at level 0 and after all
\* institution blocks; its total is the sum of the totals of the level-0
\* institution rows and each of its month values is the sum of that month over
\* the level-0 institution rows.
C9_GrandTotalSumsInstitutions ==
  PivotDone =>
    LET rows == pivotRows(results, requestData)
        last == rows[Len(rows)]
    IN /\ Len(rows) >= 1
       /\ {k \in 1..Len(rows) : rows[k].label = "Grand Total"} = {Len(rows)}
       /\ last.level = 0
       /\ last.total = SumOver([j \in 1..Len(rows) |-> rows[j].total], InstIdx(rows))
       /\ \A c \in 1..Len(last.months) :
            last.months[c] = SumOver([j \in 1..Len(rows) |-> rows[j].months[c]], InstIdx(rows))
       /\ result.csv[1 + Len(rows)] = PivotLine(last)

\* a pivot over two institutions with usage
C9_Witness ==
  /\ PivotDone
  /\ LET rows == pivotRows(results, requestData)
     IN /\ Cardinality(InstIdx(rows)) = 2
        /\ \A k \in InstIdx(rows) : rows[k].total > 0
        /\ rows[Len(rows)].total > 0

\* the level-1 labels of the block of the level-0 row at k, in order
Level1Labels(rows, k) ==
  LET idx == SelectIdx(rows, LAMBDA r : r.level = 1, 1)
      mine == SelectIdx(idx, LAMBDA j : j \in ChildIdx(rows, k), 1)
  IN [n \in 1..Len(mine) |-> rows[idx[mine[n]]].label]

\* C10: for tr_j3, within each institution the level-1 access-type rows come
\* in the order Controlled, Free_To_Read, Open, and the rows whose access tag
\* is unrecognized or absent make a bucket "Unknown" that is a level-1 row
\* exactly when there is such a row.
C10_AccessOrderAndUnknownBucket ==
  (PivotDone /\ requestData.report_type \in J3Spellings) =>
    LET rows == pivotRows(results, requestData)
    IN \A k \in InstIdx(rows) :
         LET labels == Level1Labels(rows, k)
             known == Filter(labels, LAMBDA a : a \in Range(accessTypeOrder))
             tags == {results[j].Access_Type : j \in RowsOf(results, rows[k].label)}
         IN /\ known = PresentIn(accessTypeOrder, tags)
            /\ "Unknown" \in Range(labels) <=> tags \ Range(accessTypeOrder) # {}

\* a direct call of fn has returned
Returned(fn) == call.fn = fn /\ Has(call, "value")

\* months since year 0 of a date's month
MonthNo(date) == date.y * 12 + (date.m - 1)

\* the Mon-YY label of month number n, by arithmetic
LabelOf(n) == months[(n % 12) + 1] \o "-" \o ShortYear(n \div 12)

\* C14: for begin in month M_b of Y_b and end in month M_e of Y_e, end not
\* earlier than begin, getMonthColumns returns the Mon-YY labels from begin's
\* month through end's month in order, one per calendar month, none skipped or
\* repeated: (Y_e*12+M_e)-(Y_b*12+M_b)+1 of them, also across a year boundary.
C14_MonthColumnsCoverRange ==
  (Returned("getMonthColumns") /\ DateLE(call.args.beginDate, call.args.endDate)) =>
    LET b == call.args.beginDate
        e == call.args.endDate
        n == (e.y * 12 + e.m) - (b.y * 12 + b.m) + 1
    IN /\ Len(call.value) = n
       /\ \A k \in 1..n : call.value[k] = LabelOf(MonthNo(b) + k - 1)
       /\ \A k, q \in 1..n : k # q => call.value[k] # call.value[q]

\* a range from the middle of a month across the year boundary
C14_Witness ==
  /\ Returned("getMonthColumns")
  /\ call.args.beginDate = [y |-> 2023, m |-> 11, d |-> 15]
  /\ call.args.endDate = [y |-> 2024, m |-> 2, d |-> 1]
  /\ call.value = <<"Nov-23", "Dec-23", "Jan-24", "Feb-24">>

\* C19: getMonthColumns returns the empty sequence whenever begin is later
\* than end, also when both lie in the same calendar month.
C19_InvertedRangeIsEmpty ==
  (Returned("getMonthColumns") /\ ~DateLE(call.args.beginDate, call.args.endDate)) =>
    call.value = <<>>


\* id.Value || '' of the first entry of the list with the given Type
FirstOfType(list, type) ==
  LET at == {k \in 1..Len(list) : list[k].Type = type}
  IN IF at = {} THEN ""
     ELSE GetOr(list[CHOOSE k \in at : \A q \in at : k <= q], "Value", "")

\* C20: for a list-form identifier container, extractItemData sets DOI,
\* proprietary id, print ISSN and online ISSN each to the value of the first
\* entry of the list whose Type matches, and to "" when no entry has the type.
C20_ListFormFirstMatchWins ==
  (Returned("extractItemData") /\ call.args.item.Item_ID.isArray) =>
    LET list == call.args.item.Item_ID.list
    IN /\ call.value.doi = FirstOfType(list, "DOI")
       /\ call.value.proprietary_id = FirstOfType(list, "Proprietary")
       /\ call.value.print_issn = FirstOfType(list, "Print_ISSN")
       /\ call.value.online_issn = FirstOfType(list, "Online_ISSN")


\* a returned direct call of processApiResponse on a one-item payload
ReturnedOneItem ==
  /\ Returned("processApiResponse")
  /\ Len(call.args.jsonData.Report_Items) = 1

\* the (block, instance) positions of a version 5 item's metric instances in
\* blocks that have a Period
InstanceAt(item) ==
  {p \in (1..Len(item.Performance)) \X (1..2) :
     /\ Has(item.Performance[p[1]], "Period")
     /\ p[2] <= Len(item.Performance[p[1]].Instance)}

CountAt(item) ==
  [p \in InstanceAt(item) |-> item.Performance[p[1]].Instance[p[2]].Count]

\* C15: in the legacy path, for every item and metric type, each month column
\* of the emitted row is the sum of Count over all instances of the metric in
\* all period blocks whose begin date falls in that month, and
\* Reporting_Period_Total is the sum of Count over all of the metric's instances.
C15_LegacyMonthsAccumulate ==
  (/\ ReturnedOneItem
   /\ Has(call.args.jsonData.Report_Items[1], "Performance")
   /\ ~isVersion51(call.args.requestData, call.args.jsonData.Report_Items)) =>
    LET item == call.args.jsonData.Report_Items[1]
        rows == call.value.entries
        at == InstanceAt(item)
        metricAt(q) == item.Performance[q[1]].Instance[q[2]].Metric_Type
        monthAt(q) == formatMonthKey(item.Performance[q[1]].Period.Begin_Date)
        monthColumns == getMonthColumns(call.args.requestData.begin_date, call.args.requestData.end_date)
    IN /\ {rows[k].Metric_Type : k \in DOMAIN rows} = {metricAt(q) : q \in at}
       /\ Len(rows) = Cardinality({metricAt(q) : q \in at})
       /\ \A k \in DOMAIN rows :
            LET mine == {q \in at : metricAt(q) = rows[k].Metric_Type}
            IN /\ rows[k].Reporting_Period_Total = SumOver(CountAt(item), mine)
               /\ \A c \in DOMAIN monthColumns :
                    rows[k][monthColumns[c]] =
                      SumOver(CountAt(item), {q \in mine : monthAt(q) = monthColumns[c]})


\* the rows the version 5.1 path gives for a payload
CurrentPathRows(jsonData, rd) ==
  LET monthColumns == getMonthColumns(rd.begin_date, rd.end_date)
  IN FlattenSeqs([k \in 1..Len(jsonData.Report_Items) |->
       Item51Entries(jsonData.Report_Items[k], jsonData.Report_Header.Institution_Name,
                     getInstitutionId(jsonData), rd, monthColumns)])

\* the rows the version 5 path gives for a payload
LegacyPathRows(jsonData, rd) ==
  LET monthColumns == getMonthColumns(rd.begin_date, rd.end_date)
  IN FlattenSeqs([k \in 1..Len(jsonData.Report_Items) |->
       Item5Entries(jsonData.Report_Items[k], jsonData.Report_Header.Institution_Name,
                    getInstitutionId(jsonData), rd, monthColumns)])

\* C16: a non-empty payload is processed as current schema exactly when the
\* format hint is "5.1", or the hint is absent and the first report item has
\* an Attribute_Performance container; in every other case, in particular with
\* the hint "5", it is processed by the legacy path; only the first item is
\* inspected.
C16_SchemaDecision ==
  (Returned("processApiResponse") /\ Len(call.args.jsonData.Report_Items) > 0) =>
    LET jsonData == call.args.jsonData
        rd == call.args.requestData
        current ==
          \/ Has(rd, "format") /\ rd.format = "5.1"
          \/ ~Has(rd, "format") /\ Has(jsonData.Report_Items[1], "Attribute_Performance")
    IN call.value.entries =
         IF current THEN CurrentPathRows(jsonData, rd) ELSE LegacyPathRows(jsonData, rd)


\* a returned direct call that took the version 5.1 path on a one-item payload
ReturnedCurrent ==
  /\ ReturnedOneItem
  /\ Has(call.args.jsonData.Report_Items[1], "Attribute_Performance")
  /\ isVersion51(call.args.requestData, call.args.jsonData.Report_Items)

\* the (entry, metric) positions of a version 5.1 item, in emission order
MetricAt(item) ==
  FlattenSeqs([k \in 1..Len(item.Attribute_Performance) |->
    [j \in 1..Len(item.Attribute_Performance[k].Performance) |-> <<k, j>>]])

\* the count a month-keyed count map records for month number n, or 0
CountFor(monthlyData, n) ==
  LET at == {k \in 1..Len(monthlyData) : monthlyData[k][1].y * 12 + monthlyData[k][1].m - 1 = n}
  IN IF at = {} THEN 0 ELSE monthlyData[CHOOSE k \in at : TRUE][2]

\* C17: in the current-schema path each emitted row's Reporting_Period_Total
\* is the sum of all per-month counts of the metric's count map, and each month
\* column of the run holds the count recorded for its YYYY-MM key, or 0 when
\* there is none; counts outside the run's range add to the total only.
C17_CurrentTotalsAndMonths ==
  ReturnedCurrent =>
    LET item == call.args.jsonData.Report_Items[1]
        rd == call.args.requestData
        rows == call.value.entries
        at == MetricAt(item)
        monthColumns == getMonthColumns(rd.begin_date, rd.end_date)
    IN /\ Len(rows) = Len(at)
       /\ \A r \in DOMAIN rows :
            LET metric == item.Attribute_Performance[at[r][1]].Performance[at[r][2]]
            IN /\ rows[r].Metric_Type = metric[1]
               /\ rows[r].Reporting_Period_Total
                    = SumOver([k \in 1..Len(metric[2]) |-> metric[2][k][2]],
                              1..Len(metric[2]))
               /\ \A c \in DOMAIN monthColumns :
                    rows[r][monthColumns[c]]
                      = CountFor(metric[2], MonthNo(rd.begin_date) + c - 1)
               /\ DOMAIN rows[r] \ NonMonthKeys = Range(monthColumns)

\* a count map with a month in the run's range and a month after it
C17_Witness ==
  /\ ReturnedCurrent
  /\ \E r \in DOMAIN call.value.entries :
       LET row == call.value.entries[r]
       IN /\ row.Metric_Type = "Total_Item_Requests"
          /\ row.Reporting_Period_Total = 7
          /\ row["Dec-23"] = 0
          /\ row["Jan-24"] = 3


\* the (access type, metric type) combinations of a version 5.1 item
Combinations(item) ==
  {<<GetOr(item.Attribute_Performance[q[1]], "Access_Type", ""),
     item.Attribute_Performance[q[1]].Performance[q[2]][1]>> : q \in Range(MetricAt(item))}

\* C18: in the current-schema path processApiResponse emits exactly one row
\* per (item, access type, metric type): for an item no two rows share both
\* the access type and the metric type, also when several Attribute_Performance
\* entries carry the same access-type tag.
C18_OneRowPerCombination ==
  ReturnedCurrent =>
    LET item == call.args.jsonData.Report_Items[1]
        rows == call.value.entries
    IN /\ Len(rows) = Cardinality(Combinations(item))
       /\ IsTRJ3(call.args.requestData) =>
            \A r, q \in DOMAIN rows :
              (rows[r].Access_Type = rows[q].Access_Type
                 /\ rows[r].Metric_Type = rows[q].Metric_Type) => r = q


\* the text of a field value with its quote characters doubled
DoubledText(v) == IF v = "The \"Q\" Journal" THEN "The \"\"Q\"\" Journal" ELSE v

\* C13: convertToCSV returns the empty string for zero rows; otherwise line 1
\* is the header (the eleven base columns, YOP iff tr_j4, Access_Type iff
\* tr_j3, Metric_Type, Reporting_Period_Total, the month columns in order) and
\* row i gives line i + 1: one double-quoted value per header column in header
\* order, quote characters doubled, a missing field as an empty quoted string.
C13_FlatCsvLayout ==
  Returned("convertToCSV") =>
    LET data == call.args.data
        rd == call.args.requestData
        lower == toLowerCase(rd.report_type)
        headers ==
          <<"Institution_Name", "Institution_ID", "Title", "Publisher", "Publisher_ID",
            "Platform", "DOI", "Proprietary_ID", "Print_ISSN", "Online_ISSN", "URI">>
            \o (IF lower = "tr_j4" THEN <<"YOP">> ELSE <<>>)
            \o (IF lower = "tr_j3" THEN <<"Access_Type">> ELSE <<>>)
            \o <<"Metric_Type", "Reporting_Period_Total", "Dec-23", "Jan-24">>
        numeric == {"Reporting_Period_Total", "Dec-23", "Jan-24"}
        cell(row, h) ==
          IF h \notin DOMAIN row THEN "\"\""
          ELSE IF h \in numeric THEN "\"" \o ToString(row[h]) \o "\""
          ELSE "\"" \o DoubledText(row[h]) \o "\""
    IN IF data = <<>> THEN call.value = <<>>
       ELSE /\ Len(call.value) = Len(data) + 1
            /\ call.value[1] = Join([k \in 1..Len(headers) |-> "\"" \o headers[k] \o "\""], ",")
            /\ \A r \in 1..Len(data) :
                 call.value[r + 1] = Join([k \in 1..Len(headers) |-> cell(data[r], headers[k])], ",")

\* a tr_j4 table with a title that holds quote characters and a row without
\* metric type
C13_Witness ==
  /\ Returned("convertToCSV")
  /\ toLowerCase(call.args.requestData.report_type) = "tr_j4"
  /\ Len(call.args.data) = 2
  /\ call.args.data[1].Title = "The \"Q\" Journal"
  /\ "Metric_Type" \notin DOMAIN call.args.data[2]
  /\ call.value[2] =
       "\"Alpha Univ\",\"I1\",\"The \"\"Q\"\" Journal\",\"\",\"\",\"Plat\",\"\",\"\",\"\",\"\",\"\",\"2021\",\"Total_Item_Requests\",\"5\",\"0\",\"5\""


\* the pivot rows of a returned direct call of formatAsPivot
ReturnedPivot == pivotRows(call.args.data, call.args.requestData)

\* C11: for tr_j4, within each institution the level-1 rows of the years of
\* publication come in strictly descending numeric order, and the rows whose
\* YOP is not a number or is absent make one bucket "Unknown", emitted after
\* all numeric YOP buckets.
C11_YopOrderAndUnknownBucket ==
  (Returned("formatAsPivot") /\ toLowerCase(call.args.requestData.report_type) = "tr_j4") =>
    LET data == call.args.data
        rows == ReturnedPivot
    IN \A k \in InstIdx(rows) :
         LET yops == {data[j].YOP : j \in RowsOf(data, rows[k].label)}
         IN Level1Labels(rows, k)
              = PresentIn(<<"2021", "2019">>, yops)
                  \o (IF yops \ {"2021", "2019"} # {} THEN <<"Unknown">> ELSE <<>>)

\* the labels of the institution rows of a pivot, in order
InstitutionLabels(rows) ==
  LET idx == SelectIdx(rows, LAMBDA r : r.level = 0, 1)
  IN [n \in 1..(Len(idx) - 1) |-> rows[idx[n]].label]

\* C12: the order of the institution blocks depends only on the institution
\* names, not on the order of the accumulated rows: the institutions come in
\* ascending lexicographic order of name, "Alpha Univ" before "Beta Univ".
C12_InstitutionsAscending ==
  Returned("formatAsPivot") =>
    LET data == call.args.data
    IN InstitutionLabels(ReturnedPivot)
         = PresentIn(<<"Alpha Univ", "Beta Univ">>, InstitutionsOf(data))

\* rows accumulated with "Beta Univ" first, "Alpha Univ" after
C12_Witness ==
  /\ Returned("formatAsPivot")
  /\ Len(call.args.data) = 3
  /\ call.args.data[1].Institution_Name = "Beta Univ"
  /\ call.args.data[2].Institution_Name = "Alpha Univ"
  /\ call.args.data[3].Institution_Name = "Beta Univ"
  /\ InstitutionLabels(ReturnedPivot) = <<"Alpha Univ", "Beta Univ">>

\* the Proprietary property of an object-form container read directly: the
\* whole string, the element of a one-element list, "" when absent
ProprietaryRead(obj) ==
  IF "Proprietary" \notin DOMAIN obj THEN ""
  ELSE IF obj.Proprietary.isArray THEN obj.Proprietary.list[1]
  ELSE obj.Proprietary.str

\* C21: for an object-form identifier container, the publisher id of
\* extractItemData and the institution id of getInstitutionId are the
\* container's Proprietary property read directly: the whole string when it is
\* a plain string, the element when it is a one-element list, "" when absent.
C21_ObjectFormProprietary ==
  /\ (/\ Returned("extractItemData")
      /\ Has(call.args.item, "Publisher_ID")
      /\ ~call.args.item.Publisher_ID.isArray) =>
       call.value.publisher_id = ProprietaryRead(call.args.item.Publisher_ID.obj)
  /\ (/\ Returned("getInstitutionId")
      /\ Has(call.args.jsonData, "Report_Header")
      /\ Has(call.args.jsonData.Report_Header, "Institution_ID")
      /\ ~call.args.jsonData.Report_Header.Institution_ID.isArray) =>
       call.value = ProprietaryRead(call.args.jsonData.Report_Header.Institution_ID.obj)

\* the rows one account contributes: its data or No Data rows, or its error row
AccountRows(outcome, rd, account) ==
  LET processedData == TryBlock(outcome, rd, account)
  IN IF processedData.threw
     THEN <<createErrorEntry(processedData.message, rd, account)>>
     ELSE processedData.entries

\* the rows of the accounts processed so far, account by account
RowsByAccount(outcomes, rd) ==
  FlattenSeqs([k \in 1..Len(outcomes) |-> AccountRows(outcomes[k], rd, rd.accounts[k])])

\* C22: the row accumulator is append-only and ordered by account: a step
\* leaves every row accumulated before it unchanged and in place, and after
\* any completed account the accumulator is the rows of the first account,
\* then those of the second, and so on.
C22_AccumulatorAppendOnly ==
  [][/\ Len(results') >= Len(results)
     /\ SubSeq(results', 1, Len(results)) = results
     /\ results' = RowsByAccount(fetched', requestData)
     /\ AccountStep =>
          results' = results \o AccountRows(fetched'[i + 1], requestData,
                                            requestData.accounts[i + 1])]_vars

\* two accounts with rows: four data rows of the first, then the error row of
\* the second
C22_Witness ==
  /\ Len(fetched) = 2
  /\ IsBody(fetched[1], "legacy_beta")
  /\ IsFailure(fetched[2])
  /\ Len(results) = 5
  /\ \A k \in 1..4 : results[k].Institution_Name = "Beta Univ"
  /\ results[5].Institution_ID = "c2"

\* the positions of the events of a kind in the stream
EventsOfType(type) ==
  {k \in DOMAIN events : Has(events[k], "type") /\ events[k].type = type}

ErrorEvents == {k \in DOMAIN events : Has(events[k], "error")}

\* the events written so far are a beginning of: progress 1..n, complete
StreamEventsInOrder ==
  LET n == Len(requestData.accounts)
      progress == EventsOfType("progress")
      complete == EventsOfType("complete")
  IN /\ DOMAIN events = progress \cup complete \cup ErrorEvents
     /\ progress = 1..Cardinality(progress)
     /\ Cardinality(progress) <= n
     /\ \A k \in progress :
          /\ events[k].current = k
          /\ events[k].total = n
          /\ events[k].successful + events[k].failed = k - 1
     /\ Len(fetched) <= Cardinality(progress)
     /\ Cardinality(progress) <= Len(fetched) + 1
     /\ complete \subseteq {n + 1}
     /\ \A k \in complete : events[k].total = n
     /\ Cardinality(ErrorEvents) <= 1
     /\ \A k \in ErrorEvents : k = Len(events)
     /\ writerClosed <= 1
     /\ writerClosed = 1 <=> pc = "done"
     /\ writerClosed = 1 =>
          \/ ErrorEvents = {Len(events)}
          \/ ErrorEvents = {} /\ complete = {n + 1} /\ Len(events) = n + 1

\* C23: on /harvest-stream, for n accounts the events written are, in order,
\* n progress events with current = 1..n, each written before its account is
\* fetched and carrying successful + failed = current - 1, then exactly one
\* complete event with total = n; no progress event follows the complete
\* event, and the writer is closed exactly once, after the last event, or after
\* a single error event when processing rejects.
C23_StreamEventOrder ==
  /\ []StreamEventsInOrder
  /\ [][/\ SubSeq(events', 1, Len(events)) = events
        /\ writerClosed = 1 => events' = events /\ writerClosed' = 1
        /\ (pc = "progress" /\ pc' = "fetch") =>
             /\ Len(events') = Len(events) + 1
             /\ events'[Len(events')].type = "progress"
             /\ events'[Len(events')].current = Len(fetched) + 1
             /\ fetched' = fetched]_vars

\* a finished stream for two accounts, one failed: two progress events, the
\* complete event, the writer closed
C23_Witness ==
  /\ endpoint = "stream"
  /\ pc = "done"
  /\ writerClosed = 1
  /\ Len(requestData.accounts) = 2
  /\ failed = 1
  /\ Len(events) = 3
  /\ EventsOfType("progress") = {1, 2}
  /\ events[2].failed + events[2].successful = 1
  /\ EventsOfType("complete") = {3}
  /\ events[3].total = 2


====
